---------------------------- MODULE Spec2Model ----------------------------
(***************************************************************************)
(* Value marshalling between host (Rust) values and Lua values:            *)
(* src/src/conversion.rs (single values) and src/src/multi.rs (argument    *)
(* and result lists, Result, Variadic, tuples).                            *)
(*                                                                         *)
(* Every conversion is a synchronous function of its input, the VM context *)
(* and the Lua stack.  The state machine is one call: from the idle state  *)
(* an action runs one trait method on an input drawn from a bounded set    *)
(* and records its outcome and the stack it leaves.                        *)
(*                                                                         *)
(* Records carry their tag in field k, and two records with the same field *)
(* names hold the same kinds of things in them.  Results are Ok(v) /       *)
(* Err(e) as in Rust.                                                      *)
(***************************************************************************)
EXTENDS Integers, Sequences, FiniteSets, TLC

\* lua:   the VM context of the call
\* pc:    "idle", or the method that has run
\* arg:   the input of the method
\* pre:   the Lua stack when the method was entered
\* stack: the Lua stack (bottom first)
\* ret:   what the method returned
\* log:   what the method did, in order: capacity checks and pushes, or the
\*        element conversions it made
VARIABLES lua, pc, arg, pre, stack, ret, log

vars == <<lua, pc, arg, pre, stack, ret, log>>

(***************************************************************************)
(* Bounds of the model.                                                    *)
(***************************************************************************)
\* most fixed positions of a tuple (the source expands 0..15 plus the last)
MaxFixed == 2
\* most elements of an incoming list, a MultiValue or a Variadic
MaxList == 3
\* width in bits of lua_Integer in the model (i64 in the program)
LuaIntBits == 10
\* bytes a VM with a memory limit can still allocate
MemFree == 16

(***************************************************************************)
(* Program constants.                                                      *)
(***************************************************************************)
\* i8::MIN, i8::MAX: lua_convert_int!(i8)
I8Min == -128
I8Max == 127
\* push_bytes_into_stack: bytes.len() < (1 << 30)
FastPathLimit == 1073741824
\* ffi::LUA_REFNIL
LUA_REFNIL == -1

LuaIntMax == 2^(LuaIntBits - 1) - 1
LuaIntMin == -(2^(LuaIntBits - 1))
\* the widest host integer type of the model (i128 in the program) has two
\* bits more than lua_Integer; the f64 mantissa has two bits fewer
WideMax == 2^(LuaIntBits + 1) - 1
WideMin == -(2^(LuaIntBits + 1))
MantBits == LuaIntBits - 2

(***************************************************************************)
(* Rust's Result.                                                          *)
(***************************************************************************)
Ok(v) == [k |-> "Ok", v |-> v]
\* None of an Option
None == [k |-> "None"]
Err(e) == [k |-> "Err", e |-> e]
IsOk(r) == r.k = "Ok"
IsErr(r) == r.k = "Err"

(***************************************************************************)
(* crate::value::Value.  A Number holds twice its value in field h, so     *)
(* that halves are representable: Number(7) is 3.5.  A String holds its    *)
(* text and its length in bytes ("big" stands for a buffer of 2^30 bytes). *)
(***************************************************************************)
Nil == [k |-> "nil"]
Boolean(b) == [k |-> "boolean", b |-> b]
Integer(i) == [k |-> "integer", i |-> i]
Number(h) == [k |-> "number", h |-> h]
String(s, n) == [k |-> "string", len |-> n, s |-> s]
Table(t) == [k |-> "table", id |-> t]

\* Value::type_name
type_name(value) == value.k

(***************************************************************************)
(* crate::error::Error, the variants these files construct or pass on.     *)
(***************************************************************************)
FromLuaConversionError(from, to, message) ==
    [k |-> "FromLuaConversionError", from |-> from, message |-> message, to |-> to]
ToLuaConversionError(from, to, message) ==
    [k |-> "ToLuaConversionError", from |-> from, message |-> message, to |-> to]
MismatchedRegistryKey == [k |-> "MismatchedRegistryKey"]
MemoryError == [k |-> "MemoryError"]
BadArgument(to, pos, cause) ==
    [k |-> "BadArgument", cause |-> cause, pos |-> pos, to |-> to]

(***************************************************************************)
(* Host values, tagged with their Rust type.                               *)
(***************************************************************************)
HBool(b) == [k |-> "bool", b |-> b]
HInt(ty, x) == [k |-> ty, i |-> x]
HString(ty, s, n) == [k |-> ty, len |-> n, s |-> s]
HNone(ty) == [k |-> "Option", t |-> ty]
HSome(x) == [k |-> "Option", some |-> x, t |-> x.k]
IsSome(x) == "some" \in DOMAIN x
HValue(v) == [k |-> "Value", val |-> v]
HRegistryKey(owner, id) == [k |-> "RegistryKey", id |-> id, owner |-> owner]

IntTypes == {"i8", "i64", "i128"}
TypeMin(ty) == CASE ty = "i8" -> I8Min [] ty = "i64" -> LuaIntMin [] OTHER -> WideMin
TypeMax(ty) == CASE ty = "i8" -> I8Max [] ty = "i64" -> LuaIntMax [] OTHER -> WideMax

(***************************************************************************)
(* num_traits::cast and the `as` conversions.                              *)
(***************************************************************************)
Abs(x) == IF x < 0 THEN -x ELSE x

RECURSIVE Ulp(_, _)
\* the spacing of floats at magnitude a: the least power of two p (from p0)
\* with a < 2^MantBits * p
Ulp(a, p0) == IF a < (2^MantBits) * p0 THEN p0 ELSE Ulp(a, 2 * p0)

\* integer to f64, round to nearest, ties to even; the result is the
\* float's value (an integer)
IntToFloat(x) ==
    LET a == Abs(x)
        p == Ulp(a, 1)
        q == a \div p
        r == a % p
        m == IF 2 * r < p THEN q * p
             ELSE IF 2 * r > p THEN (q + 1) * p
             ELSE IF q % 2 = 0 THEN q * p ELSE (q + 1) * p
    IN  IF x < 0 THEN -m ELSE m

\* cast::<_, lua_Integer>(x): Some(x) iff x is in lua_Integer's range
CastToLuaInteger(x) == IF x >= LuaIntMin /\ x <= LuaIntMax THEN Ok(x) ELSE None

\* cast::<integer, $x>(i): Some(i) iff i is in $x's range
CastIntTo(ty, i) == IF i >= TypeMin(ty) /\ i <= TypeMax(ty) THEN Ok(i) ELSE None

\* cast::<f64, $x>(n), n given in halves: num_traits truncates toward zero
\* and answers Some iff the truncated value is in $x's range
CastFloatTo(ty, h) ==
    LET t == IF h >= 0 THEN h \div 2 ELSE -((-h) \div 2)
    IN  IF t >= TypeMin(ty) /\ t <= TypeMax(ty) THEN Ok(t) ELSE None

(***************************************************************************)
(* The VM context: its identity (registry keys belong to one VM), whether  *)
(* allocation can fail (a memory limit is set) and what it can still       *)
(* allocate.                                                               *)
(***************************************************************************)
LuaCtx(id, unlikely, free) ==
    [id |-> id, memfree |-> free, unlikely_memory_error |-> unlikely]

\* the registry of every VM: reference id -> value
Registry(id) == CASE id = 1 -> Integer(42) [] id = 2 -> Table(1) [] OTHER -> Nil


(***************************************************************************)
(* Services of the VM (crate::state) the conversions call.                 *)
(***************************************************************************)
\* Lua::create_string: allocates a VM string holding a copy of the bytes;
\* under a memory limit the allocation fails when the bytes do not fit
create_string(s, n, ctx) ==
    IF ctx.unlikely_memory_error \/ n <= ctx.memfree
    THEN Ok(String(s, n)) ELSE Err(MemoryError)

\* RawLua::owns_registry_value
owns_registry_value(ctx, key) == key.owner = ctx.id

\* Lua::registry_value
registry_value(ctx, key) ==
    IF ~owns_registry_value(ctx, key) THEN Err(MismatchedRegistryKey)
    ELSE IF key.id = LUA_REFNIL THEN Ok(Nil) ELSE Ok(Registry(key.id))

\* RawLua::push_value: one more slot on top of the stack
push_value(st, value) == Append(st, value)

\* the slot a relative (negative) index names
Slot(st, idx) == st[Len(st) + 1 + idx]

\* RawLua::stack_value: the boxed Value of a slot
stack_value(st, idx) == Slot(st, idx)

\* the numeral a string holds, as the VM reads it: Integer, Number or None
StrToNumber(s) ==
    CASE s = "42" -> Ok(Integer(42))
      [] s = "300" -> Ok(Integer(300))
      [] s = "301" -> Ok(Integer(301))
      [] s = "3.5" -> Ok(Number(7))
      [] OTHER -> None

\* Lua::coerce_integer: Option<Integer>
coerce_integer(value) ==
    CASE value.k = "integer" -> Ok(value.i)
      [] value.k = "number" ->
            IF value.h % 2 = 0 THEN CastToLuaInteger(value.h \div 2) ELSE None
      [] value.k = "string" ->
            LET n == StrToNumber(value.s)
            IN  IF IsOk(n) /\ n.v.k = "integer" THEN Ok(n.v.i) ELSE None
      [] OTHER -> None

\* Lua::coerce_number: Option<Number>, in halves
coerce_number(value) ==
    CASE value.k = "number" -> Ok(value.h)
      [] value.k = "integer" -> Ok(2 * IntToFloat(value.i))
      [] value.k = "string" ->
            LET n == StrToNumber(value.s)
            IN  IF ~IsOk(n) THEN None
                ELSE IF n.v.k = "integer" THEN Ok(2 * IntToFloat(n.v.i)) ELSE Ok(n.v.h)
      [] OTHER -> None

\* the VM's numeral-to-string formatting
NumberToStr(value) ==
    IF value.k = "integer" THEN ToString(value.i)
    ELSE LET a == Abs(value.h)
         IN  (IF value.h < 0 THEN "-" ELSE "") \o ToString(a \div 2)
                \o (IF a % 2 = 0 THEN ".0" ELSE ".5")

\* Lua::coerce_string: Result<Option<String>>; a number is formatted into a
\* newly allocated string
coerce_string(value, ctx) ==
    CASE value.k = "string" -> Ok(Ok(value))
      [] value.k \in {"integer", "number"} ->
            LET s == NumberToStr(value)
                c == create_string(s, Len(s), ctx)
            IN  IF IsErr(c) THEN c ELSE Ok(c)
      [] OTHER -> Ok(None)

\* ffi::lua_type, as far as the conversions tell types apart
lua_type(st, idx) ==
    LET s == Slot(st, idx)
    IN  CASE s.k = "nil" -> "LUA_TNIL"
          [] s.k \in {"integer", "number"} -> "LUA_TNUMBER"
          [] s.k = "string" -> "LUA_TSTRING"
          [] s.k = "boolean" -> "LUA_TBOOLEAN"
          [] OTHER -> "LUA_TTABLE"

\* ffi::lua_toboolean
lua_toboolean(st, idx) ==
    LET s == Slot(st, idx)
    IN  ~(s.k = "nil" \/ (s.k = "boolean" /\ ~s.b))

\* ffi::lua_tointegerx on a LUA_TNUMBER slot: the integer, or a float with
\* an exact integer value in lua_Integer's range; Err stands for ok = 0
lua_tointegerx(st, idx) ==
    LET s == Slot(st, idx)
    IN  IF s.k = "integer" THEN Ok(s.i)
        ELSE IF s.k = "number" /\ s.h % 2 = 0 THEN CastToLuaInteger(s.h \div 2)
        ELSE None

(***************************************************************************)
(* IntoLua: into_lua and push_into_stack.  A push answers what it returns  *)
(* (res) and the stack it leaves.                                          *)
(***************************************************************************)
Pushed(r, st) == [res |-> r, stack |-> st]

\* cast(self) to ffi::lua_Number: the nearest float, never None
CastToLuaNumber(x) == Ok(2 * IntToFloat(x))

\* a variant that converts every integer through the VM's float
IntIntoLuaFloat(x) == Ok(Number(2 * IntToFloat(x.i)))

\* lua_convert_int!: into_lua
IntIntoLua(x) ==
    IF IsOk(CastToLuaInteger(x.i)) THEN Ok(Integer(CastToLuaInteger(x.i).v))
    ELSE IF IsOk(CastToLuaNumber(x.i)) THEN Ok(Number(CastToLuaNumber(x.i).v))
    ELSE Err(ToLuaConversionError(x.k, "number", "out of range"))

\* lua_convert_int!: push_into_stack
IntPushIntoStack(x, st) ==
    IF IsOk(CastToLuaInteger(x.i))
    THEN Pushed(Ok("()"), Append(st, Integer(CastToLuaInteger(x.i).v)))
    ELSE Pushed(Ok("()"), Append(st, Number(2 * IntToFloat(x.i))))

\* impl IntoLua for StdString / &str: into_lua
StrIntoLua(x, ctx) == create_string(x.s, x.len, ctx)

\* impl IntoLua for bool: into_lua
BoolIntoLua(x) == Ok(Boolean(x.b))

\* impl IntoLua for bool: push_into_stack
BoolPushIntoStack(x, st) == Pushed(Ok("()"), Append(st, Boolean(x.b)))

\* lua.push_value(&v?): an error is returned, a Value is pushed
PushBoxed(v, st) ==
    IF IsErr(v) THEN Pushed(v, st) ELSE Pushed(Ok("()"), push_value(st, v.v))

\* a push made by ffi::lua_pushlstring, without boxing
PushedDirect(r, st) == [res |-> r, stack |-> st, via |-> "lua_pushlstring"]

\* a variant that takes the direct branch whatever the VM reports
FastPathUnchecked(x, ctx) == x.len < FastPathLimit

\* push_bytes_into_stack: whether the direct branch is taken
FastPath(x, ctx) == ctx.unlikely_memory_error /\ x.len < FastPathLimit

\* push_bytes_into_stack
push_bytes_into_stack(x, ctx, st) ==
    IF FastPath(x, ctx)
    THEN PushedDirect(Ok("()"), Append(st, String(x.s, x.len)))
    ELSE PushBoxed(StrIntoLua(x, ctx), st)

\* a variant that does not ask whether the VM owns the key
KeyPushUnchecked(x, ctx, st) ==
    IF x.id = LUA_REFNIL THEN Pushed(Ok("()"), Append(st, Nil))
    ELSE Pushed(Ok("()"), Append(st, Registry(x.id)))

\* impl IntoLua for &RegistryKey: push_into_stack
KeyPushIntoStack(x, ctx, st) ==
    IF ~owns_registry_value(ctx, x) THEN Pushed(Err(MismatchedRegistryKey), st)
    ELSE IF x.id = LUA_REFNIL THEN Pushed(Ok("()"), Append(st, Nil))
    ELSE Pushed(Ok("()"), Append(st, Registry(x.id)))

RECURSIVE into_lua(_, _)
\* IntoLua::into_lua, by the type of the host value
into_lua(x, ctx) ==
    CASE x.k = "bool" -> BoolIntoLua(x)
      [] x.k \in IntTypes -> IntIntoLua(x)
      [] x.k \in {"String", "&str"} -> StrIntoLua(x, ctx)
      [] x.k = "Option" -> IF IsSome(x) THEN into_lua(x.some, ctx) ELSE Ok(Nil)
      [] x.k = "RegistryKey" -> registry_value(ctx, x)
      [] x.k = "Value" -> Ok(x.val)

\* IntoLua::push_into_stack of the trait, for the types that do not
\* override it: box with into_lua, then push the Value
DefaultPushIntoStack(x, ctx, st) == PushBoxed(into_lua(x, ctx), st)

RECURSIVE push_into_stack(_, _, _)
\* IntoLua::push_into_stack, by the type of the host value
push_into_stack(x, ctx, st) ==
    CASE x.k = "bool" -> BoolPushIntoStack(x, st)
      [] x.k \in IntTypes -> IntPushIntoStack(x, st)
      [] x.k \in {"String", "&str"} -> push_bytes_into_stack(x, ctx, st)
      [] x.k = "Option" ->
            IF IsSome(x) THEN push_into_stack(x.some, ctx, st)
            ELSE Pushed(Ok("()"), Append(st, Nil))
      [] x.k = "RegistryKey" -> KeyPushIntoStack(x, ctx, st)
      [] x.k = "Value" -> DefaultPushIntoStack(x, ctx, st)

(***************************************************************************)
(* FromLua: from_lua and from_stack.  The target type is named as in the   *)
(* source: "bool", "i8", "String", "Value", "Option<i8>", ...              *)
(***************************************************************************)
IsOption(ty) == ty \in {"Option<bool>", "Option<i8>", "Option<String>"}
OptionOf(ty) ==
    CASE ty = "Option<bool>" -> "bool"
      [] ty = "Option<i8>" -> "i8"
      [] ty = "Option<String>" -> "String"

\* a variant that takes the integer 0 and the empty string for false
BoolFromLuaZeroFalse(value) ==
    CASE value.k = "nil" -> Ok(HBool(FALSE))
      [] value.k = "boolean" -> Ok(HBool(value.b))
      [] value.k = "integer" -> Ok(HBool(value.i # 0))
      [] value.k = "string" -> Ok(HBool(value.len # 0))
      [] OTHER -> Ok(HBool(TRUE))

\* impl FromLua for bool: from_lua
BoolFromLua(value) ==
    CASE value.k = "nil" -> Ok(HBool(FALSE))
      [] value.k = "boolean" -> Ok(HBool(value.b))
      [] OTHER -> Ok(HBool(TRUE))

\* impl FromLua for bool: from_stack
BoolFromStack(st, idx) == Ok(HBool(lua_toboolean(st, idx)))

\* lua_convert_int!: cast(..).ok_or_else(|| FromLuaConversionError { from, to, "out of range" })
InRange(from, ty, c) ==
    IF IsOk(c) THEN Ok(HInt(ty, c.v))
    ELSE Err(FromLuaConversionError(from, ty, "out of range"))

\* a variant that tries the float coercion first
CoercedFloatFirst(from, ty, i, n) ==
    IF IsOk(n) THEN InRange(from, ty, CastFloatTo(ty, n.v))
    ELSE IF ~IsOk(i)
    THEN Err(FromLuaConversionError(from, ty, "expected number or string coercible to number"))
    ELSE InRange(from, ty, CastIntTo(ty, i.v))

\* lua_convert_int!: from_lua of a value that is neither Integer nor Number,
\* i and n being what coerce_integer and coerce_number answer for it
CoercedFromLua(from, ty, i, n) ==
    IF IsOk(i) THEN InRange(from, ty, CastIntTo(ty, i.v))
    ELSE IF ~IsOk(n)
    THEN Err(FromLuaConversionError(from, ty, "expected number or string coercible to number"))
    ELSE InRange(from, ty, CastFloatTo(ty, n.v))

\* lua_convert_int!: from_lua
IntFromLua(ty, value) ==
    CASE value.k = "integer" -> InRange(type_name(value), ty, CastIntTo(ty, value.i))
      [] value.k = "number" -> InRange(type_name(value), ty, CastFloatTo(ty, value.h))
      [] OTHER -> CoercedFromLua(type_name(value), ty, coerce_integer(value),
                                 coerce_number(value))

\* lua_convert_int!: from_stack, i being what lua_tointegerx answers
IntFromStackFast(ty, st, idx, i) ==
    IF lua_type(st, idx) = "LUA_TNUMBER" /\ IsOk(i)
    THEN InRange("integer", ty, CastIntTo(ty, i.v))
    ELSE IntFromLua(ty, stack_value(st, idx))

\* lua_convert_int!: from_stack
IntFromStack(ty, st, idx) == IntFromStackFast(ty, st, idx, lua_tointegerx(st, idx))

\* impl FromLua for StdString: from_lua, s being what coerce_string answers
StrCoerced(from, s) ==
    IF IsErr(s) THEN s
    ELSE IF ~IsOk(s.v)
    THEN Err(FromLuaConversionError(from, "String", "expected string or number"))
    ELSE Ok(HString("String", s.v.v.s, s.v.v.len))

\* impl FromLua for StdString: from_lua
StrFromLua(value, ctx) == StrCoerced(type_name(value), coerce_string(value, ctx))

\* impl FromLua for StdString: from_stack
StrFromStack(st, idx, ctx) ==
    IF lua_type(st, idx) = "LUA_TSTRING"
    THEN Ok(HString("String", Slot(st, idx).s, Slot(st, idx).len))
    ELSE StrFromLua(stack_value(st, idx), ctx)

\* from_lua of the types that are no Option
PlainFromLua(ty, value, ctx) ==
    CASE ty = "bool" -> BoolFromLua(value)
      [] ty \in IntTypes -> IntFromLua(ty, value)
      [] ty = "String" -> StrFromLua(value, ctx)
      [] ty = "Value" -> Ok(HValue(value))

\* FromLua::from_stack of the trait, for the types that do not override it
DefaultFromStack(ty, st, idx, ctx) == PlainFromLua(ty, stack_value(st, idx), ctx)

\* from_stack of the types that are no Option
PlainFromStack(ty, st, idx, ctx) ==
    CASE ty = "bool" -> BoolFromStack(st, idx)
      [] ty \in IntTypes -> IntFromStack(ty, st, idx)
      [] ty = "String" -> StrFromStack(st, idx, ctx)
      [] ty = "Value" -> DefaultFromStack(ty, st, idx, ctx)

\* Ok(Some(r?))
SomeOf(r) == IF IsErr(r) THEN r ELSE Ok(HSome(r.v))

\* impl FromLua for Option<T>: from_lua
OptionFromLua(ty, value, ctx) ==
    IF value.k = "nil" THEN Ok(HNone(OptionOf(ty)))
    ELSE SomeOf(PlainFromLua(OptionOf(ty), value, ctx))

\* impl FromLua for Option<T>: from_stack
OptionFromStack(ty, st, idx, ctx) ==
    IF lua_type(st, idx) = "LUA_TNIL" THEN Ok(HNone(OptionOf(ty)))
    ELSE SomeOf(PlainFromStack(OptionOf(ty), st, idx, ctx))

\* FromLua::from_lua, by the target type
from_lua(ty, value, ctx) ==
    IF IsOption(ty) THEN OptionFromLua(ty, value, ctx) ELSE PlainFromLua(ty, value, ctx)

\* FromLua::from_stack, by the target type
from_stack(ty, st, idx, ctx) ==
    IF IsOption(ty) THEN OptionFromStack(ty, st, idx, ctx)
    ELSE PlainFromStack(ty, st, idx, ctx)

\* a failure becomes a BadArgument carrying the argument's position and the
\* function's name
ArgError(r, i, to) == IF IsErr(r) THEN Err(BadArgument(to, i, r.e)) ELSE r

\* FromLua::from_lua_arg of the trait
from_lua_arg(ty, value, i, to, ctx) == ArgError(from_lua(ty, value, ctx), i, to)

\* FromLua::from_stack_arg of the trait
from_stack_arg(ty, st, idx, i, to, ctx) == ArgError(from_stack(ty, st, idx, ctx), i, to)

(***************************************************************************)
(* Host values of the multi-value contract (IntoLuaMulti).                 *)
(***************************************************************************)
\* a plain T: IntoLua used where an IntoLuaMulti is expected
MSingle(x) == [k |-> "T", x |-> x]
\* ()
MUnit == [k |-> "()"]
\* Result<T, E>: Ok(x) or Err(x)
MResult(ok, x) == [k |-> "Result", ok |-> ok, x |-> x]
\* Result<(), E>: Ok(()) or Err(x)
MResultUnit(ok, x) == [k |-> "Result<()>", ok |-> ok, x |-> x]
\* MultiValue
MMultiValue(vs) == [k |-> "MultiValue", vals |-> vs]
\* Variadic<T>
MVariadic(xs) == [k |-> "Variadic", elems |-> xs]
\* the tuple (fixed[1], ..., fixed[N], last)
MTuple(fixed, last) == [k |-> "Tuple", fixed |-> fixed, last |-> last]

\* the events a call leaves in the log
CheckEv(n) == [ev |-> "check_stack", n |-> n]
PushEv == [ev |-> "push"]
DirectPushEv == [ev |-> "push", via |-> "lua_pushlstring"]

\* a push sequence in progress: what it answers, the stack and the log
Frame(r, st, lg) == [res |-> r, stack |-> st, log |-> lg]

\* util::check_stack: reserves n slots above the top
check_stack(f, n) == Frame(Ok("()"), f.stack, Append(f.log, CheckEv(n)))

\* the frame after a push_into_stack that answered p
Logged(p, f) ==
    Frame(p.res, p.stack,
          IF Len(p.stack) = Len(f.stack) THEN f.log
          ELSE IF "via" \in DOMAIN p THEN Append(f.log, DirectPushEv)
          ELSE Append(f.log, PushEv))

\* one push_into_stack within a push sequence
PushOne(x, ctx, f) == Logged(push_into_stack(x, ctx, f.stack), f)

(***************************************************************************)
(* IntoLuaMulti: into_lua_multi.                                           *)
(***************************************************************************)
\* v.push_back(x.into_lua(lua)?) on an empty list
OneValue(v) == IF IsErr(v) THEN v ELSE Ok(<<v.v>>)

\* impl IntoLuaMulti for T: into_lua_multi
SingleIntoLuaMulti(x, ctx) == OneValue(into_lua(x, ctx))

\* the value v?, then the values rest?
Cons(v, rest) ==
    IF IsErr(v) THEN v ELSE IF IsErr(rest) THEN rest ELSE Ok(<<v.v>> \o rest.v)

RECURSIVE VariadicValues(_, _)
\* the conversions of a Variadic's elements, front to back, up to the first
\* failure (MultiValue::extend_from_values)
VariadicValues(xs, ctx) ==
    IF xs = <<>> THEN Ok(<<>>)
    ELSE Cons(into_lua(Head(xs), ctx), VariadicValues(Tail(xs), ctx))

\* impl IntoLuaMulti for Variadic<T>: into_lua_multi
VariadicIntoLuaMulti(xs, ctx) == VariadicValues(xs, ctx)

\* $multi_value.push_front($first) after the rest has been expanded: the
\* rest's failure comes first
PushFront(rest, first) ==
    IF IsErr(rest) THEN rest ELSE IF IsErr(first) THEN first ELSE Ok(<<first.v>> \o rest.v)

RECURSIVE push_forward(_, _, _)
\* a variant that pushes the fixed values to the front in declaration order
push_forward(results, fixed, ctx) ==
    IF fixed = <<>> THEN Ok(results)
    ELSE PushFront(push_forward(results, SubSeq(fixed, 1, Len(fixed) - 1), ctx),
                   into_lua(fixed[Len(fixed)], ctx))

RECURSIVE push_reverse(_, _, _)
\* push_reverse!(results, fixed[1].into_lua(lua)?, ..., fixed[N].into_lua(lua)?):
\* the rest is expanded first, then the first is pushed to the front
push_reverse(results, fixed, ctx) ==
    IF fixed = <<>> THEN Ok(results)
    ELSE PushFront(push_reverse(results, Tail(fixed), ctx), into_lua(Head(fixed), ctx))

\* a variant that puts the error before the Nil
ErrorThenNil(err) == MTuple(<<err>>, MSingle(HValue(Nil)))

\* the tuple (Nil, err) of a failed Result
NilThenError(err) == MTuple(<<HValue(Nil)>>, MSingle(err))

\* let mut results = $last.into_lua_multi(lua)?; push_reverse!(results, ...)
PrependFixed(results, fixed, ctx) ==
    IF IsErr(results) THEN results ELSE push_reverse(results.v, fixed, ctx)

RECURSIVE into_lua_multi(_, _)
\* impl_tuple!: into_lua_multi
TupleIntoLuaMulti(t, ctx) == PrependFixed(into_lua_multi(t.last, ctx), t.fixed, ctx)

\* a variant that yields the error alone, without the leading Nil
ResultErrorAlone(r, ctx) == TupleIntoLuaMulti(MTuple(<<>>, MSingle(r.x)), ctx)

\* impl IntoLuaMulti for StdResult<T, E>: into_lua_multi
ResultIntoLuaMulti(r, ctx) ==
    IF r.ok THEN TupleIntoLuaMulti(MTuple(<<>>, MSingle(r.x)), ctx)
    ELSE TupleIntoLuaMulti(NilThenError(r.x), ctx)

\* impl IntoLuaMulti for StdResult<(), E>: into_lua_multi
ResultUnitIntoLuaMulti(r, ctx) ==
    IF r.ok THEN Ok(<<>>) ELSE TupleIntoLuaMulti(NilThenError(r.x), ctx)

\* IntoLuaMulti::into_lua_multi, by the type of the host value
into_lua_multi(m, ctx) ==
    CASE m.k = "T" -> SingleIntoLuaMulti(m.x, ctx)
      [] m.k = "()" -> Ok(<<>>)
      [] m.k = "Result" -> ResultIntoLuaMulti(m, ctx)
      [] m.k = "Result<()>" -> ResultUnitIntoLuaMulti(m, ctx)
      [] m.k = "MultiValue" -> Ok(m.vals)
      [] m.k = "Variadic" -> VariadicIntoLuaMulti(m.elems, ctx)
      [] m.k = "Tuple" -> TupleIntoLuaMulti(m, ctx)

(***************************************************************************)
(* IntoLuaMulti: push_into_stack_multi.  Each answers a Frame: Ok(count)   *)
(* or Err(e), the stack it leaves and the log.                             *)
(***************************************************************************)
\* self.push_into_stack(lua)?; Ok(1)
One(p) == IF IsErr(p.res) THEN p ELSE Frame(Ok(1), p.stack, p.log)

\* impl IntoLuaMulti for T: push_into_stack_multi
SinglePushIntoStackMulti(x, ctx, f) == One(PushOne(x, ctx, f))

RECURSIVE PushValues(_, _)
\* the pushes of the trait's push_into_stack_multi, one per boxed value
PushValues(vs, f) ==
    IF vs = <<>> THEN f
    ELSE PushValues(Tail(vs), Frame(f.res, push_value(f.stack, Head(vs)), Append(f.log, PushEv)))

\* the trait's push_into_stack_multi once the values are boxed: reserve,
\* push every value, answer their number
PushBoxedValues(values, f) ==
    IF IsErr(values) THEN Frame(values, f.stack, f.log)
    ELSE Frame(Ok(Len(values.v)),
               PushValues(values.v, check_stack(f, Len(values.v) + 1)).stack,
               PushValues(values.v, check_stack(f, Len(values.v) + 1)).log)

\* IntoLuaMulti::push_into_stack_multi of the trait, for the types that do
\* not override it
DefaultPushIntoStackMulti(m, ctx, f) == PushBoxedValues(into_lua_multi(m, ctx), f)

RECURSIVE PushFixed(_, _, _)
\* the `?` after a fixed position's push: stop at a failure, else go on
PushRest(fixed, ctx, p) == IF IsErr(p.res) THEN p ELSE PushFixed(fixed, ctx, p)

\* $( $name.push_into_stack(lua)?; )* : front to back, up to the first failure
PushFixed(fixed, ctx, f) ==
    IF fixed = <<>> THEN f
    ELSE PushRest(Tail(fixed), ctx, PushOne(Head(fixed), ctx, f))

\* nresults += $last.push_into_stack_multi(lua)?; Ok(nresults)
AddCount(nresults, l) ==
    IF IsErr(l.res) THEN l ELSE Frame(Ok(nresults + l.res.v), l.stack, l.log)

RECURSIVE push_into_stack_multi(_, _, _)
\* impl_tuple!: push_into_stack_multi, p being the frame after the fixed
\* positions
PushLast(t, ctx, p) ==
    IF IsErr(p.res) THEN p
    ELSE AddCount(Len(t.fixed), push_into_stack_multi(t.last, ctx, p))

\* the frame r of a push sequence begun at f, with the stack put back to
\* what it was at f when the sequence failed
Restoring(r, f) == IF IsErr(r.res) THEN Frame(r.res, f.stack, r.log) ELSE r

\* a variant that removes what it pushed when a position fails
TuplePushRestoring(t, ctx, f) ==
    Restoring(PushLast(t, ctx, PushFixed(t.fixed, ctx, check_stack(f, Len(t.fixed) + 1))), f)

\* impl_tuple!: push_into_stack_multi
TuplePushIntoStackMulti(t, ctx, f) ==
    PushLast(t, ctx, PushFixed(t.fixed, ctx, check_stack(f, Len(t.fixed) + 1)))

\* impl IntoLuaMulti for StdResult<T, E>: push_into_stack_multi
ResultPushIntoStackMulti(r, ctx, f) ==
    IF r.ok THEN TuplePushIntoStackMulti(MTuple(<<>>, MSingle(r.x)), ctx, f)
    ELSE TuplePushIntoStackMulti(NilThenError(r.x), ctx, f)

\* impl IntoLuaMulti for StdResult<(), E>: push_into_stack_multi
ResultUnitPushIntoStackMulti(r, ctx, f) ==
    IF r.ok THEN Frame(Ok(0), f.stack, f.log)
    ELSE TuplePushIntoStackMulti(NilThenError(r.x), ctx, f)

\* IntoLuaMulti::push_into_stack_multi, by the type of the host value
push_into_stack_multi(m, ctx, f) ==
    CASE m.k = "T" -> SinglePushIntoStackMulti(m.x, ctx, f)
      [] m.k = "()" -> Frame(Ok(0), f.stack, f.log)
      [] m.k = "Result" -> ResultPushIntoStackMulti(m, ctx, f)
      [] m.k = "Result<()>" -> ResultUnitPushIntoStackMulti(m, ctx, f)
      [] m.k \in {"MultiValue", "Variadic"} -> DefaultPushIntoStackMulti(m, ctx, f)
      [] m.k = "Tuple" -> TuplePushIntoStackMulti(m, ctx, f)

(***************************************************************************)
(* Types of the multi-value contract (FromLuaMulti) and what they yield.   *)
(***************************************************************************)
\* a plain T: FromLua
TSingle(ty) == [k |-> "T", t |-> ty]
TUnit == [k |-> "()"]
TMultiValue == [k |-> "MultiValue"]
\* Variadic<T>
TVariadic(ty) == [k |-> "Variadic", t |-> ty]
\* the tuple type (fixed[1], ..., fixed[N], last)
TTuple(fixed, last) == [k |-> "Tuple", fixed |-> fixed, last |-> last]

\* the host values a from_lua_multi yields
HUnit == [k |-> "()"]
HMultiValue(vs) == [k |-> "MultiValue", vals |-> vs]
HVariadic(xs) == [k |-> "Variadic", elems |-> xs]
HTuple(fixed, last) == [k |-> "Tuple", fixed |-> fixed, last |-> last]

\* the events a from-call leaves in the log: a conversion of a boxed value
\* or of a stack slot, with the argument index i it was given (0: none)
FromLuaEv(ty, value, i) == [ev |-> "from_lua", i |-> i, t |-> ty, val |-> value]
FromStackEv(ty, idx, i) == [ev |-> "from_stack", i |-> i, idx |-> idx, t |-> ty]

\* what a from-call answers, and the log
Got(r, lg) == [res |-> r, log |-> lg]

\* a variant that defaults a missing element to true
pop_front_or_true(values) == IF values = <<>> THEN Boolean(TRUE) ELSE Head(values)

\* values.pop_front().unwrap_or(Nil)
pop_front_or_nil(values) == IF values = <<>> THEN Nil ELSE Head(values)

\* a variant that leaves the popped element in the list
after_front_kept(values) == values

\* the list after pop_front
after_pop_front(values) == IF values = <<>> THEN <<>> ELSE Tail(values)

(***************************************************************************)
(* FromLuaMulti: from_lua_multi.                                           *)
(***************************************************************************)
\* impl FromLuaMulti for T: from_lua_multi
SingleFromLuaMulti(ty, values, ctx, lg) ==
    Got(from_lua(ty, pop_front_or_nil(values), ctx),
        Append(lg, FromLuaEv(ty, pop_front_or_nil(values), 0)))

RECURSIVE VariadicCollect(_, _, _, _, _)
\* a variant that collects the elements back to front
CollectReversed(ty, values, ctx, lg, done, r) ==
    IF IsErr(r) THEN Got(r, lg)
    ELSE VariadicCollect(ty, Tail(values), ctx, lg, <<r.v>> \o done)

\* a variant that drops a failing element and goes on
CollectSkipping(ty, values, ctx, lg, done, r) ==
    IF IsErr(r) THEN VariadicCollect(ty, Tail(values), ctx, lg, done)
    ELSE VariadicCollect(ty, Tail(values), ctx, lg, Append(done, r.v))

\* collect::<Result<Vec<T>>>() after the conversion r of the first of
\* values: stop at a failure, else keep it and go on
CollectNext(ty, values, ctx, lg, done, r) ==
    IF IsErr(r) THEN Got(r, lg)
    ELSE VariadicCollect(ty, Tail(values), ctx, lg, Append(done, r.v))

\* values.drain(..).map(|val| T::from_lua(val, lua)).collect::<Result<Vec<T>>>():
\* front to back, stopping at the first failure
VariadicCollect(ty, values, ctx, lg, done) ==
    IF values = <<>> THEN Got(Ok(HVariadic(done)), lg)
    ELSE CollectNext(ty, values, ctx, Append(lg, FromLuaEv(ty, Head(values), 0)), done,
                     from_lua(ty, Head(values), ctx))

\* impl FromLuaMulti for Variadic<T>: from_lua_multi
VariadicFromLuaMulti(ty, values, ctx, lg) == VariadicCollect(ty, values, ctx, lg, <<>>)

\* what the fixed positions of a tuple answer: Ok(the values bound), the
\* rest of the list (or the count of values left on the stack), the log
Bound(r, rest, lg) == [res |-> r, rest |-> rest, log |-> lg]

RECURSIVE FixedFromLua(_, _, _, _, _)
\* the `?` after a fixed position's conversion r
FixedFromLuaNext(tys, values, ctx, lg, done, r) ==
    IF IsErr(r) THEN Bound(r, after_pop_front(values), lg)
    ELSE FixedFromLua(Tail(tys), after_pop_front(values), ctx, lg, Append(done, r.v))

\* $(let $name = FromLua::from_lua(values.pop_front().unwrap_or(Nil), lua)?;)*
FixedFromLua(tys, values, ctx, lg, done) ==
    IF tys = <<>> THEN Bound(Ok(done), values, lg)
    ELSE FixedFromLuaNext(tys, values, ctx,
                          Append(lg, FromLuaEv(Head(tys), pop_front_or_nil(values), 0)), done,
                          from_lua(Head(tys), pop_front_or_nil(values), ctx))

\* Ok(($($name,)* $last,)), l being what the last position answered
TupleJoin(b, l) ==
    IF IsErr(l.res) THEN l ELSE Got(Ok(HTuple(b.res.v, l.res.v)), l.log)

RECURSIVE from_lua_multi(_, _, _, _)
\* let $last = FromLuaMulti::from_lua_multi(values, lua)?, b being what the
\* fixed positions answered
TupleLast(t, b, ctx) ==
    IF IsErr(b.res) THEN Got(b.res, b.log)
    ELSE TupleJoin(b, from_lua_multi(t.last, b.rest, ctx, b.log))

\* impl_tuple!: from_lua_multi
TupleFromLuaMulti(t, values, ctx, lg) ==
    TupleLast(t, FixedFromLua(t.fixed, values, ctx, lg, <<>>), ctx)

\* FromLuaMulti::from_lua_multi, by the target type
from_lua_multi(t, values, ctx, lg) ==
    CASE t.k = "T" -> SingleFromLuaMulti(t.t, values, ctx, lg)
      [] t.k = "()" -> Got(Ok(HUnit), lg)
      [] t.k = "MultiValue" -> Got(Ok(HMultiValue(values)), lg)
      [] t.k = "Variadic" -> VariadicFromLuaMulti(t.t, values, ctx, lg)
      [] t.k = "Tuple" -> TupleFromLuaMulti(t, values, ctx, lg)

(***************************************************************************)
(* FromLuaMulti: from_lua_args.                                            *)
(***************************************************************************)
\* impl FromLuaMulti for T: from_lua_args
SingleFromLuaArgs(ty, args, i, to, ctx, lg) ==
    Got(from_lua_arg(ty, pop_front_or_nil(args), i, to, ctx),
        Append(lg, FromLuaEv(ty, pop_front_or_nil(args), i)))

\* what the fixed positions answer in the positional variants: i is the
\* index of the next position
BoundArgs(r, rest, i, lg) == [res |-> r, rest |-> rest, i |-> i, log |-> lg]

RECURSIVE FixedFromLuaArgs(_, _, _, _, _, _, _)
\* a variant that leaves out the i += 1
FixedFromLuaArgsSame(tys, args, i, to, ctx, lg, done, r) ==
    IF IsErr(r) THEN BoundArgs(r, after_pop_front(args), i, lg)
    ELSE FixedFromLuaArgs(Tail(tys), after_pop_front(args), i, to, ctx, lg,
                          Append(done, r.v))

\* the `?` after a fixed position's conversion r, then i += 1
FixedFromLuaArgsNext(tys, args, i, to, ctx, lg, done, r) ==
    IF IsErr(r) THEN BoundArgs(r, after_pop_front(args), i, lg)
    ELSE FixedFromLuaArgs(Tail(tys), after_pop_front(args), i + 1, to, ctx, lg,
                          Append(done, r.v))

\* $( let $name = FromLua::from_lua_arg(args.pop_front().unwrap_or(Nil), i, to, lua)?;
\*    i += 1; )*
FixedFromLuaArgs(tys, args, i, to, ctx, lg, done) ==
    IF tys = <<>> THEN BoundArgs(Ok(done), args, i, lg)
    ELSE FixedFromLuaArgsNext(tys, args, i, to, ctx,
                              Append(lg, FromLuaEv(Head(tys), pop_front_or_nil(args), i)), done,
                              from_lua_arg(Head(tys), pop_front_or_nil(args), i, to, ctx))

RECURSIVE from_lua_args(_, _, _, _, _, _)
\* let $last = FromLuaMulti::from_lua_args(args, i, to, lua)?
TupleLastArgs(t, b, to, ctx) ==
    IF IsErr(b.res) THEN Got(b.res, b.log)
    ELSE TupleJoin(b, from_lua_args(t.last, b.rest, b.i, to, ctx, b.log))

\* impl_tuple!: from_lua_args
TupleFromLuaArgs(t, args, i, to, ctx, lg) ==
    TupleLastArgs(t, FixedFromLuaArgs(t.fixed, args, i, to, ctx, lg, <<>>), to, ctx)

\* FromLuaMulti::from_lua_args, by the target type; the trait's own
\* from_lua_args (the types that do not override it) is from_lua_multi
from_lua_args(t, args, i, to, ctx, lg) ==
    CASE t.k = "T" -> SingleFromLuaArgs(t.t, args, i, to, ctx, lg)
      [] t.k = "Tuple" -> TupleFromLuaArgs(t, args, i, to, ctx, lg)
      [] OTHER -> from_lua_multi(t, args, ctx, lg)

(***************************************************************************)
(* FromLuaMulti: from_stack_multi and from_stack_args, over the top nvals  *)
(* slots of the stack.  Each answers what it returns, the stack and the    *)
(* log.                                                                    *)
(***************************************************************************)
GotStack(r, st, lg) == [res |-> r, stack |-> st, log |-> lg]

\* ffi::lua_pop(state, n)
lua_pop(st, n) == SubSeq(st, 1, Len(st) - n)

\* the top nvals slots boxed, deepest first
StackValues(st, nvals) == [j \in 1..nvals |-> stack_value(st, -nvals + j - 1)]

\* impl FromLuaMulti for T: from_stack_multi
SingleFromStackMulti(ty, nvals, ctx, st, lg) ==
    IF nvals = 0
    THEN GotStack(from_lua(ty, Nil, ctx), st, Append(lg, FromLuaEv(ty, Nil, 0)))
    ELSE GotStack(from_stack(ty, st, -nvals, ctx), st, Append(lg, FromStackEv(ty, -nvals, 0)))

\* impl FromLuaMulti for (): from_stack_multi
UnitFromStackMulti(nvals, st, lg) ==
    GotStack(Ok(HUnit), IF nvals > 0 THEN lua_pop(st, nvals) ELSE st, lg)

RECURSIVE FixedFromStack(_, _, _, _, _, _)
\* the `?` after a fixed position's conversion r, nvals being the count left
FixedFromStackNext(tys, nvals, ctx, st, lg, done, r) ==
    IF IsErr(r) THEN Bound(r, nvals, lg)
    ELSE FixedFromStack(Tail(tys), nvals, ctx, st, lg, Append(done, r.v))

\* $( let $name = if nvals > 0 { nvals -= 1; FromLua::from_stack(-(nvals + 1), lua) }
\*                else { FromLua::from_lua(Nil, lua.lua()) }?; )*
FixedFromStack(tys, nvals, ctx, st, lg, done) ==
    IF tys = <<>> THEN Bound(Ok(done), nvals, lg)
    ELSE IF nvals > 0
    THEN FixedFromStackNext(tys, nvals - 1, ctx, st,
                            Append(lg, FromStackEv(Head(tys), -((nvals - 1) + 1), 0)), done,
                            from_stack(Head(tys), st, -((nvals - 1) + 1), ctx))
    ELSE FixedFromStackNext(tys, nvals, ctx, st,
                            Append(lg, FromLuaEv(Head(tys), Nil, 0)), done,
                            from_lua(Head(tys), Nil, ctx))

\* Ok(($($name,)* $last,)), l being what the last position answered
TupleJoinStack(b, l) ==
    IF IsErr(l.res) THEN l
    ELSE GotStack(Ok(HTuple(b.res.v, l.res.v)), l.stack, l.log)

RECURSIVE from_stack_multi(_, _, _, _, _)
\* let $last = FromLuaMulti::from_stack_multi(nvals, lua)?
TupleLastStack(t, b, ctx, st) ==
    IF IsErr(b.res) THEN GotStack(b.res, st, b.log)
    ELSE TupleJoinStack(b, from_stack_multi(t.last, b.rest, ctx, st, b.log))

\* impl_tuple!: from_stack_multi
TupleFromStackMulti(t, nvals, ctx, st, lg) ==
    TupleLastStack(t, FixedFromStack(t.fixed, nvals, ctx, st, lg, <<>>), ctx, st)

\* the slots are popped once they are boxed
Popped(g, st, nvals) == GotStack(g.res, lua_pop(st, nvals), g.log)

\* FromLuaMulti::from_stack_multi of the trait, for the types that do not
\* override it: box the nvals slots, pop them, convert the list
DefaultFromStackMulti(t, nvals, ctx, st, lg) ==
    Popped(from_lua_multi(t, StackValues(st, nvals), ctx, lg), st, nvals)

\* FromLuaMulti::from_stack_multi, by the target type
from_stack_multi(t, nvals, ctx, st, lg) ==
    CASE t.k = "T" -> SingleFromStackMulti(t.t, nvals, ctx, st, lg)
      [] t.k = "()" -> UnitFromStackMulti(nvals, st, lg)
      [] t.k = "Tuple" -> TupleFromStackMulti(t, nvals, ctx, st, lg)
      [] OTHER -> DefaultFromStackMulti(t, nvals, ctx, st, lg)

\* impl FromLuaMulti for T: from_stack_args
SingleFromStackArgs(ty, nargs, i, to, ctx, st, lg) ==
    IF nargs = 0
    THEN GotStack(from_lua_arg(ty, Nil, i, to, ctx), st, Append(lg, FromLuaEv(ty, Nil, i)))
    ELSE GotStack(from_stack_arg(ty, st, -nargs, i, to, ctx), st,
                  Append(lg, FromStackEv(ty, -nargs, i)))

RECURSIVE FixedFromStackArgs(_, _, _, _, _, _, _, _)
\* the `?` after a fixed position's conversion r, then i += 1
FixedFromStackArgsNext(tys, nargs, i, to, ctx, st, lg, done, r) ==
    IF IsErr(r) THEN BoundArgs(r, nargs, i, lg)
    ELSE FixedFromStackArgs(Tail(tys), nargs, i + 1, to, ctx, st, lg, Append(done, r.v))

\* $( let $name = if nargs > 0 { nargs -= 1; FromLua::from_stack_arg(-(nargs + 1), i, to, lua) }
\*                else { FromLua::from_lua_arg(Nil, i, to, lua.lua()) }?;
\*    i += 1; )*
FixedFromStackArgs(tys, nargs, i, to, ctx, st, lg, done) ==
    IF tys = <<>> THEN BoundArgs(Ok(done), nargs, i, lg)
    ELSE IF nargs > 0
    THEN FixedFromStackArgsNext(tys, nargs - 1, i, to, ctx, st,
                                Append(lg, FromStackEv(Head(tys), -((nargs - 1) + 1), i)), done,
                                from_stack_arg(Head(tys), st, -((nargs - 1) + 1), i, to, ctx))
    ELSE FixedFromStackArgsNext(tys, nargs, i, to, ctx, st,
                                Append(lg, FromLuaEv(Head(tys), Nil, i)), done,
                                from_lua_arg(Head(tys), Nil, i, to, ctx))

RECURSIVE from_stack_args(_, _, _, _, _, _, _)
\* let $last = FromLuaMulti::from_stack_args(nargs, i, to, lua)?
TupleLastStackArgs(t, b, to, ctx, st) ==
    IF IsErr(b.res) THEN GotStack(b.res, st, b.log)
    ELSE TupleJoinStack(b, from_stack_args(t.last, b.rest, b.i, to, ctx, st, b.log))

\* impl_tuple!: from_stack_args
TupleFromStackArgs(t, nargs, i, to, ctx, st, lg) ==
    TupleLastStackArgs(t, FixedFromStackArgs(t.fixed, nargs, i, to, ctx, st, lg, <<>>),
                       to, ctx, st)

\* FromLuaMulti::from_stack_args, by the target type; the trait's own
\* from_stack_args (the types that do not override it) is from_stack_multi
from_stack_args(t, nargs, i, to, ctx, st, lg) ==
    CASE t.k = "T" -> SingleFromStackArgs(t.t, nargs, i, to, ctx, st, lg)
      [] t.k = "Tuple" -> TupleFromStackArgs(t, nargs, i, to, ctx, st, lg)
      [] OTHER -> from_stack_multi(t, nargs, ctx, st, lg)

(***************************************************************************)
(* The inputs the calls are made on.                                       *)
(***************************************************************************)
SeqsUpTo(S, n) == UNION {[1..m -> S] : m \in 0..n}

\* a VM without a memory limit and a VM with one; both have id 1
Contexts == {LuaCtx(1, TRUE, 0), LuaCtx(1, FALSE, MemFree)}

\* host values for the single-value calls
HostVals ==
    {HBool(TRUE), HBool(FALSE),
     HInt("i8", I8Min), HInt("i8", I8Max), HInt("i64", LuaIntMin),
     HInt("i64", LuaIntMax), HInt("i128", LuaIntMax + 1),
     HInt("i128", WideMax), HInt("i128", WideMin),
     HString("String", "abc", 3), HString("&str", "", 0),
     HString("&str", "big", FastPathLimit - 1), HString("String", "big", FastPathLimit),
     HNone("i8"), HSome(HInt("i8", 5)), HNone("bool"), HSome(HBool(FALSE)),
     HSome(HString("String", "big", FastPathLimit)),
     HValue(Nil), HValue(Table(1)),
     HRegistryKey(1, 1), HRegistryKey(1, LUA_REFNIL), HRegistryKey(2, 1)}

\* host values for the positions of a tuple: some convert, the key of
\* another VM always fails, the big string fails under a memory limit
TupleVals ==
    {HBool(TRUE), HInt("i128", WideMax), HNone("i8"),
     HString("String", "big", FastPathLimit), HRegistryKey(2, 1)}

\* host values for the payload of a Result and the elements of a Variadic
PayloadVals == {HInt("i8", 5), HNone("i8"), HRegistryKey(2, 1)}

\* Lua values for a MultiValue
TailValues == {Nil, Integer(42)}

\* what can stand last in a tuple, or alone
Lasts ==
    {MSingle(x) : x \in TupleVals}
    \cup {MUnit}
    \cup {MResult(ok, x) : ok \in BOOLEAN, x \in PayloadVals}
    \cup {MResultUnit(TRUE, HUnit)}
    \cup {MResultUnit(FALSE, x) : x \in PayloadVals}
    \cup {MMultiValue(vs) : vs \in SeqsUpTo(TailValues, MaxList)}
    \cup {MVariadic(xs) : xs \in SeqsUpTo(PayloadVals \ {HNone("i8")}, MaxList)}
    \cup {MTuple(<<x>>, MSingle(y)) : x \in {HBool(TRUE), HRegistryKey(2, 1)},
                                       y \in {HNone("i8"), HString("String", "big", FastPathLimit)}}

\* the host values of the multi-value calls: a Last alone, or a tuple
MultiInputs ==
    Lasts \cup {MTuple(fixed, last) : fixed \in SeqsUpTo(TupleVals, MaxFixed), last \in Lasts}

\* Lua values for the single-value calls
Values ==
    {Nil, Boolean(FALSE), Boolean(TRUE), Integer(0), Integer(42), Integer(300), Integer(LuaIntMin),
     Number(7), Number(84), Number(600), Number(-1), Number(2 * (LuaIntMax + 1)),
     String("42", 2), String("300", 3), String("301", 3), String("3.5", 3), String("abc", 3), String("", 0),
     Table(1)}

\* Lua values for the incoming lists
ListValues == {Nil, Boolean(FALSE), Integer(42), Number(600)}

\* target types of the single-value calls
Types == {"bool", "i8", "i64", "String", "Value", "Option<bool>", "Option<i8>", "Option<String>"}

\* target types of the fixed positions of a tuple
FixedTypes == {"bool", "i8", "Value"}

\* target types that can stand last in a tuple type, or alone
LastTypes ==
    {TSingle(ty) : ty \in FixedTypes \cup {"Option<i8>"}}
    \cup {TUnit, TMultiValue, TVariadic("Option<i8>"), TVariadic("Value")}

MultiTypes ==
    LastTypes \cup {TTuple(fixed, last) : fixed \in SeqsUpTo(FixedTypes, MaxFixed),
                                          last \in LastTypes}

\* incoming lists: shorter than, as long as and longer than a tuple's arity
Lists == SeqsUpTo(ListValues, MaxList)

\* the index of the first argument, and the name of the function
FirstIndexes == {1, 3}
CallNames == {"f"}

(***************************************************************************)
(* The state machine: one call per behaviour.                              *)
(***************************************************************************)
NoArg == [k |-> "none"]

Init ==
    /\ lua \in Contexts
    /\ pc = "idle"
    /\ arg = NoArg
    /\ stack = <<Table(0)>>
    /\ pre = stack
    /\ ret = NoArg
    /\ log = <<>>

\* a call is made on a VM that has made none yet
Idle == pc = "idle"

\* IntoLua::into_lua
IntoLua(x) ==
    /\ Idle
    /\ pc' = "into_lua"
    /\ arg' = x
    /\ pre' = stack
    /\ ret' = into_lua(x, lua)
    /\ UNCHANGED <<lua, stack, log>>

\* IntoLua::push_into_stack
PushIntoStack(x) ==
    /\ Idle
    /\ pc' = "push_into_stack"
    /\ arg' = x
    /\ pre' = stack
    /\ ret' = PushOne(x, lua, Frame(Ok("()"), stack, <<>>)).res
    /\ stack' = PushOne(x, lua, Frame(Ok("()"), stack, <<>>)).stack
    /\ log' = PushOne(x, lua, Frame(Ok("()"), stack, <<>>)).log
    /\ UNCHANGED lua

\* FromLua::from_lua
FromLua(ty, value) ==
    /\ Idle
    /\ pc' = "from_lua"
    /\ arg' = [t |-> ty, values |-> <<value>>]
    /\ pre' = stack
    /\ ret' = from_lua(ty, value, lua)
    /\ UNCHANGED <<lua, stack, log>>

\* FromLua::from_stack, on the top slot holding value
FromStack(ty, value) ==
    /\ Idle
    /\ pc' = "from_stack"
    /\ arg' = [t |-> ty, values |-> <<value>>]
    /\ pre' = Append(stack, value)
    /\ ret' = from_stack(ty, Append(stack, value), -1, lua)
    /\ stack' = Append(stack, value)
    /\ UNCHANGED <<lua, log>>

\* IntoLuaMulti::into_lua_multi
IntoLuaMulti(m) ==
    /\ Idle
    /\ pc' = "into_lua_multi"
    /\ arg' = m
    /\ pre' = stack
    /\ ret' = into_lua_multi(m, lua)
    /\ UNCHANGED <<lua, stack, log>>

\* IntoLuaMulti::push_into_stack_multi
PushIntoStackMulti(m) ==
    /\ Idle
    /\ pc' = "push_into_stack_multi"
    /\ arg' = m
    /\ pre' = stack
    /\ LET f == push_into_stack_multi(m, lua, Frame(Ok("()"), stack, <<>>))
       IN  ret' = f.res /\ stack' = f.stack /\ log' = f.log
    /\ UNCHANGED lua

\* FromLuaMulti::from_lua_multi
FromLuaMulti(t, values) ==
    /\ Idle
    /\ pc' = "from_lua_multi"
    /\ arg' = [t |-> t, values |-> values]
    /\ pre' = stack
    /\ LET g == from_lua_multi(t, values, lua, <<>>)
       IN  ret' = g.res /\ log' = g.log
    /\ UNCHANGED <<lua, stack>>

\* FromLuaMulti::from_lua_args
FromLuaArgs(t, values, i, to) ==
    /\ Idle
    /\ pc' = "from_lua_args"
    /\ arg' = [t |-> t, values |-> values, i |-> i, to |-> to]
    /\ pre' = stack
    /\ LET g == from_lua_args(t, values, i, to, lua, <<>>)
       IN  ret' = g.res /\ log' = g.log
    /\ UNCHANGED <<lua, stack>>

\* FromLuaMulti::from_stack_multi, the values being the top slots
FromStackMulti(t, values) ==
    /\ Idle
    /\ pc' = "from_stack_multi"
    /\ arg' = [t |-> t, values |-> values]
    /\ pre' = stack \o values
    /\ LET g == from_stack_multi(t, Len(values), lua, stack \o values, <<>>)
       IN  ret' = g.res /\ stack' = g.stack /\ log' = g.log
    /\ UNCHANGED lua

\* FromLuaMulti::from_stack_args, the values being the top slots
FromStackArgs(t, values, i, to) ==
    /\ Idle
    /\ pc' = "from_stack_args"
    /\ arg' = [t |-> t, values |-> values, i |-> i, to |-> to]
    /\ pre' = stack \o values
    /\ LET g == from_stack_args(t, Len(values), i, to, lua, stack \o values, <<>>)
       IN  ret' = g.res /\ stack' = g.stack /\ log' = g.log
    /\ UNCHANGED lua

Next ==
    \/ Idle /\ \E x \in HostVals : IntoLua(x)
    \/ Idle /\ \E x \in HostVals : PushIntoStack(x)
    \/ Idle /\ \E ty \in Types, value \in Values : FromLua(ty, value)
    \/ Idle /\ \E ty \in Types, value \in Values : FromStack(ty, value)
    \/ Idle /\ \E m \in MultiInputs : IntoLuaMulti(m)
    \/ Idle /\ \E m \in MultiInputs : PushIntoStackMulti(m)
    \/ Idle /\ \E t \in MultiTypes, values \in Lists : FromLuaMulti(t, values)
    \/ Idle /\ \E t \in MultiTypes, values \in Lists, i \in FirstIndexes, to \in CallNames :
            FromLuaArgs(t, values, i, to)
    \/ Idle /\ \E t \in MultiTypes, values \in Lists : FromStackMulti(t, values)
    \/ Idle /\ \E t \in MultiTypes, values \in Lists, i \in FirstIndexes, to \in CallNames :
            FromStackArgs(t, values, i, to)

Spec == Init /\ [][Next]_vars

(***************************************************************************)
(* Properties.                                                             *)
(***************************************************************************)
\* the list a Result whose payload converts to v is expected to yield
ResultList(ok, v) == IF ok THEN <<v>> ELSE <<Nil, v>>

\* C1: a Result<T, E> whose payload converts yields [into_lua(v)] for Ok(v)
\* and [Nil, into_lua(e)] for Err(e) from into_lua_multi, and
\* push_into_stack_multi answers 1 and 2 for the same inputs, having pushed
\* that many values.
ResultShape ==
    (pc \in {"into_lua_multi", "push_into_stack_multi"} /\ arg.k = "Result"
        /\ IsOk(into_lua(arg.x, lua)))
    => /\ IsOk(ret)
       /\ pc = "into_lua_multi" => ret.v = ResultList(arg.ok, into_lua(arg.x, lua).v)
       /\ pc = "push_into_stack_multi" =>
             /\ ret.v = IF arg.ok THEN 1 ELSE 2
             /\ Len(stack) = Len(pre) + ret.v

\* a failed Result has been pushed: two values
ResultShapeWitness ==
    /\ pc = "push_into_stack_multi" /\ arg.k = "Result" /\ ~arg.ok
    /\ IsOk(ret) /\ ret.v = 2 /\ stack = pre \o <<Nil, Integer(5)>>

\* the number of positions of a tuple type that take one element each
Arity(t) == Len(t.fixed) + (IF t.last.k = "T" THEN 1 ELSE 0)

\* the list padded with Nil to length n
Padded(values, n) == values \o [j \in 1..(n - Len(values)) |-> Nil]

\* C2: given a list shorter than the tuple's arity N, from_lua_multi answers
\* what it answers for the list padded with Nil to length N, and each fixed
\* position beyond the list is bound to what from_lua makes of Nil (false for
\* bool, None for an Option).
ShortListPadded ==
    (pc = "from_lua_multi" /\ arg.t.k = "Tuple" /\ Len(arg.values) < Arity(arg.t))
    => /\ ret = from_lua_multi(arg.t, Padded(arg.values, Arity(arg.t)), lua, <<>>).res
       /\ IsOk(ret) =>
             \A j \in (Len(arg.values) + 1)..Len(arg.t.fixed) :
                 ret.v.fixed[j] = from_lua(arg.t.fixed[j], Nil, lua).v
       /\ (IsOk(ret) /\ arg.t.last.k = "T") => ret.v.last = from_lua(arg.t.last.t, Nil, lua).v

\* a three-position tuple given one element binds the two others to the
\* defaults
ShortListPaddedWitness ==
    /\ pc = "from_lua_multi"
    /\ arg.t = TTuple(<<"i8", "bool">>, TSingle("Option<i8>"))
    /\ arg.values = <<Integer(42)>>
    /\ ret = Ok(HTuple(<<HInt("i8", 42), HBool(FALSE)>>, HNone("i8")))

\* the fixed positions of a tuple that fail to convert
FailingFixed(fixed, ctx) == {j \in 1..Len(fixed) : IsErr(into_lua(fixed[j], ctx))}

\* the greatest element of a non-empty set of numbers
Max(S) == CHOOSE j \in S : \A i \in S : i <= j

\* C3: a tuple (x1, ..., xN, tail) whose conversions all succeed yields
\* [into_lua(x1), ..., into_lua(xN)] followed by the tail's list, in
\* declaration order; the tail is converted first and the fixed positions
\* from the last to the first, so a failing tail is reported before any
\* fixed position, and a later fixed position before an earlier one.
TupleOrder ==
    (pc = "into_lua_multi" /\ arg.k = "Tuple")
    => IF IsErr(into_lua_multi(arg.last, lua))
       THEN ret = into_lua_multi(arg.last, lua)
       ELSE IF FailingFixed(arg.fixed, lua) # {}
       THEN ret = into_lua(arg.fixed[Max(FailingFixed(arg.fixed, lua))], lua)
       ELSE /\ IsOk(ret)
            /\ ret.v = [j \in 1..Len(arg.fixed) |-> into_lua(arg.fixed[j], lua).v]
                            \o into_lua_multi(arg.last, lua).v

\* two fixed values come out before a two-element tail, all in order
TupleOrderWitness ==
    /\ pc = "into_lua_multi"
    /\ arg = MTuple(<<HBool(TRUE), HNone("i8")>>, MMultiValue(<<Integer(42), Nil>>))
    /\ ret = Ok(<<Boolean(TRUE), Nil, Integer(42), Nil>>)

\* the j-th element of the list, Nil beyond its end
Elem(values, j) == IF j <= Len(values) THEN values[j] ELSE Nil

\* the elements after the n-th
Rest(values, n) == IF n >= Len(values) THEN <<>> ELSE SubSeq(values, n + 1, Len(values))

\* the conversions a tuple type with a multi-valued tail is expected to make
\* of a list, in order: one per fixed position, then one per element left
\* for a Variadic tail
ExpectedLog(t, values) ==
    [j \in 1..Len(t.fixed) |-> FromLuaEv(t.fixed[j], Elem(values, j), 0)]
    \o IF t.last.k = "Variadic"
       THEN [j \in 1..Len(Rest(values, Len(t.fixed))) |->
                FromLuaEv(t.last.t, Rest(values, Len(t.fixed))[j], 0)]
       ELSE <<>>

\* C4: for a tuple with N fixed positions and a multi-valued tail,
\* from_lua_multi converts the j-th element of the list for fixed position j,
\* front to back and before any element of the tail, and the tail receives
\* exactly the elements after the N-th in their order.
TupleBinding ==
    (pc = "from_lua_multi" /\ arg.t.k = "Tuple" /\ arg.t.last.k \in {"MultiValue", "Variadic"})
    => /\ Len(log) <= Len(ExpectedLog(arg.t, arg.values))
       /\ \A j \in 1..Len(log) : log[j] = ExpectedLog(arg.t, arg.values)[j]
       /\ IsOk(ret) =>
             /\ Len(log) = Len(ExpectedLog(arg.t, arg.values))
             /\ \A j \in 1..Len(arg.t.fixed) :
                    ret.v.fixed[j] = from_lua(arg.t.fixed[j], Elem(arg.values, j), lua).v
             /\ arg.t.last.k = "MultiValue" =>
                    ret.v.last = HMultiValue(Rest(arg.values, Len(arg.t.fixed)))
             /\ arg.t.last.k = "Variadic" =>
                    ret.v.last.elems =
                        [j \in 1..Len(Rest(arg.values, Len(arg.t.fixed))) |->
                            from_lua(arg.t.last.t, Rest(arg.values, Len(arg.t.fixed))[j], lua).v]

\* one fixed position takes the first element, the tail the two others
TupleBindingWitness ==
    /\ pc = "from_lua_multi"
    /\ arg.t = TTuple(<<"i8">>, TMultiValue)
    /\ arg.values = <<Integer(42), Number(600), Nil>>
    /\ ret = Ok(HTuple(<<HInt("i8", 42)>>, HMultiValue(<<Number(600), Nil>>)))

\* the type of the j-th position of a tuple type, j being at most its arity
TypeAt(t, j) == IF j <= Len(t.fixed) THEN t.fixed[j] ELSE t.last.t

\* C5: from_lua_args and from_stack_args called on a tuple with starting
\* index i convert the k-th position with argument index i + k - 1, also when
\* the position is missing and Nil is converted in its place; a failure of
\* the k-th position is a BadArgument carrying i + k - 1, and the stack
\* variant fails exactly when the boxed one does, with the same index.
ArgIndex ==
    (pc \in {"from_lua_args", "from_stack_args"} /\ arg.t.k = "Tuple")
    => /\ \A j \in 1..Len(log) : j <= Arity(arg.t) =>
             /\ log[j].i = arg.i + j - 1
             /\ log[j].t = TypeAt(arg.t, j)
             /\ j > Len(arg.values) => log[j] = FromLuaEv(TypeAt(arg.t, j), Nil, arg.i + j - 1)
       /\ (IsErr(ret) /\ Len(log) <= Arity(arg.t)) =>
             /\ ret.e.k = "BadArgument"
             /\ ret.e.pos = arg.i + Len(log) - 1
             /\ ret.e.to = arg.to
       /\ pc = "from_stack_args" =>
             /\ IsErr(ret) <=> IsErr(from_lua_args(arg.t, arg.values, arg.i, arg.to, lua, <<>>).res)
             /\ (IsErr(ret) /\ ret.e.k = "BadArgument") =>
                   /\ from_lua_args(arg.t, arg.values, arg.i, arg.to, lua, <<>>).res.e.k = "BadArgument"
                   /\ from_lua_args(arg.t, arg.values, arg.i, arg.to, lua, <<>>).res.e.pos = ret.e.pos

\* with i = 1, the second argument fails and index 2 is reported
ArgIndexWitness ==
    /\ pc = "from_stack_args" /\ arg.i = 1
    /\ arg.t = TTuple(<<"bool", "i8">>, TSingle("Value"))
    /\ arg.values = <<Integer(42), Nil, Integer(42)>>
    /\ IsErr(ret) /\ ret.e.k = "BadArgument" /\ ret.e.pos = 2

\* the elements of the list that fail to convert to ty
Failing(ty, values, ctx) == {j \in 1..Len(values) : IsErr(from_lua(ty, values[j], ctx))}

\* the least element of a non-empty set of numbers
Min(S) == CHOOSE j \in S : \A i \in S : j <= i

\* C6: Variadic<T>::from_lua_multi makes of a list of n convertible values
\* (n = 0 included) a Variadic of their n conversions in the list's order,
\* and into_lua_multi of that Variadic yields a list of the same length and
\* order: the original list for T = Value.
VariadicRoundTrip ==
    (pc = "from_lua_multi" /\ arg.t.k = "Variadic" /\ Failing(arg.t.t, arg.values, lua) = {})
    => /\ IsOk(ret)
       /\ ret.v = HVariadic([j \in 1..Len(arg.values) |-> from_lua(arg.t.t, arg.values[j], lua).v])
       /\ IsOk(into_lua_multi(MVariadic(ret.v.elems), lua))
       /\ Len(into_lua_multi(MVariadic(ret.v.elems), lua).v) = Len(arg.values)
       /\ \A j \in 1..Len(arg.values) :
             into_lua_multi(MVariadic(ret.v.elems), lua).v[j] = into_lua(ret.v.elems[j], lua).v
       /\ arg.t.t = "Value" => into_lua_multi(MVariadic(ret.v.elems), lua).v = arg.values

\* three values become a Variadic of three and come back as the same list
VariadicRoundTripWitness ==
    /\ pc = "from_lua_multi"
    /\ arg.t = TVariadic("Value")
    /\ arg.values = <<Integer(42), Nil, Number(600)>>
    /\ ret = Ok(HVariadic(<<HValue(Integer(42)), HValue(Nil), HValue(Number(600))>>))
    /\ into_lua_multi(MVariadic(ret.v.elems), lua) = Ok(arg.values)

\* C7: Variadic<T>::from_lua_multi converts the elements front to back and
\* stops at the first that fails: it answers that element's error, converts
\* no element after it and returns no Variadic.
VariadicFailFast ==
    (pc = "from_lua_multi" /\ arg.t.k = "Variadic")
    => /\ \A j \in 1..Len(log) : log[j] = FromLuaEv(arg.t.t, arg.values[j], 0)
       /\ IF Failing(arg.t.t, arg.values, lua) = {}
          THEN IsOk(ret) /\ Len(log) = Len(arg.values)
          ELSE /\ IsErr(ret)
               /\ ret = from_lua(arg.t.t, arg.values[Min(Failing(arg.t.t, arg.values, lua))], lua)
               /\ Len(log) = Min(Failing(arg.t.t, arg.values, lua))

\* the second and the third element fail: the second's error is returned
\* and the third is not converted
VariadicFailFastWitness ==
    /\ pc = "from_lua_multi"
    /\ arg.t = TVariadic("Option<i8>")
    /\ arg.values = <<Integer(42), Number(600), Boolean(FALSE)>>
    /\ ret = Err(FromLuaConversionError("number", "i8", "out of range"))
    /\ Len(log) = 2

\* C8: for a tuple type, from_stack_multi(n) over a stack whose top n slots
\* hold v1..vn answers what from_lua_multi answers for [v1, ..., vn].
StackMultiSame ==
    (pc = "from_stack_multi" /\ arg.t.k = "Tuple")
    => ret = from_lua_multi(arg.t, arg.values, lua, <<>>).res

\* C9: for a tuple, push_into_stack_multi answers the length of the list
\* into_lua_multi returns and pushes that list bottom to top; when
\* into_lua_multi fails, push_into_stack_multi fails with the same error.
PushMultiSame ==
    (pc = "push_into_stack_multi" /\ arg.k = "Tuple")
    => IF IsOk(into_lua_multi(arg, lua))
       THEN /\ IsOk(ret)
            /\ ret.v = Len(into_lua_multi(arg, lua).v)
            /\ stack = pre \o into_lua_multi(arg, lua).v
       ELSE ret = into_lua_multi(arg, lua)

\* the host types whose push_into_stack is written out in the source
FastTypes == {"bool", "Option", "String", "&str"} \cup IntTypes

\* C10: push_into_stack of a bool, an integer, an Option, a &str or a String
\* leaves on the stack exactly one value more, equal to into_lua of the same
\* input, and fails as into_lua does, pushing nothing; a string is pushed by
\* the direct branch iff the VM reports an unlikely memory error and the
\* length is below 2^30.
PushSameAsIntoLua ==
    (pc = "push_into_stack" /\ arg.k \in FastTypes)
    => /\ IF IsOk(into_lua(arg, lua))
          THEN IsOk(ret) /\ stack = Append(pre, into_lua(arg, lua).v)
          ELSE ret = into_lua(arg, lua) /\ stack = pre
       /\ arg.k \in {"String", "&str"} =>
             (log = <<DirectPushEv>>) <=> (lua.unlikely_memory_error /\ arg.len < 1073741824)

\* a string of 2^30 bytes is pushed by the fallback branch although the VM
\* reports an unlikely memory error
PushSameAsIntoLuaWitness ==
    /\ pc = "push_into_stack"
    /\ arg = HString("String", "big", 1073741824)
    /\ lua.unlikely_memory_error
    /\ IsOk(ret) /\ log = <<PushEv>>
    /\ stack = Append(pre, String("big", 1073741824))

\* the target types whose from_stack is written out in the source
FastFromTypes == Types \ {"Value"}

\* C11: for a type with a from_stack fast path, from_stack on a slot answers
\* what from_lua answers for the boxed Value of that slot: the same host
\* value, or the same error with the same from, to and message.
FromStackSame ==
    (pc = "from_stack" /\ arg.t \in FastFromTypes)
    => ret = from_lua(arg.t, arg.values[1], lua)

RECURSIVE Composed(_)
\* the host value is composed of tuples, Results and single values only
Composed(m) ==
    \/ m.k \in {"T", "()", "Result", "Result<()>"}
    \/ m.k = "Tuple" /\ Composed(m.last)

RECURSIVE Covered(_, _)
\* every push in the log finds a slot reserved by a check_stack before it,
\* free being the slots reserved and not yet written
Covered(lg, free) ==
    IF lg = <<>> THEN TRUE
    ELSE IF Head(lg).ev = "check_stack"
    THEN Covered(Tail(lg), IF Head(lg).n > free THEN Head(lg).n ELSE free)
    ELSE free > 0 /\ Covered(Tail(lg), free - 1)

\* no check_stack comes after a push
ChecksFirst(lg) ==
    \A i \in 1..Len(lg), j \in 1..Len(lg) :
        (i < j /\ lg[i].ev = "push") => lg[j].ev # "check_stack"

\* C12: in a push_into_stack_multi call on a composition of tuples, Results
\* and single values, every value pushed finds stack space reserved by a
\* capacity check made earlier in the call, and no capacity check is made
\* after the first value has been pushed.
CapacityBeforePush ==
    (pc = "push_into_stack_multi" /\ Composed(arg))
    => Covered(log, 0) /\ ChecksFirst(log)

\* the value is Nil or Boolean(false)
Falsy(value) == value.k = "nil" \/ (value.k = "boolean" /\ ~value.b)

\* C13: from_lua to bool never fails and follows truthiness: false for Nil
\* and Boolean(false), true for Boolean(true) and every other kind, the
\* integer 0 and the empty string included.
BoolTruthiness ==
    (pc = "from_lua" /\ arg.t = "bool")
    => IsOk(ret) /\ ret.v = HBool(~Falsy(arg.values[1]))

\* the integer 0 converts to true
BoolTruthinessWitness ==
    /\ pc = "from_lua" /\ arg.t = "bool"
    /\ arg.values = <<Integer(0)>>
    /\ ret = Ok(HBool(TRUE))

\* the number the value holds, in halves
Halves(value) == IF value.k = "integer" THEN 2 * value.i ELSE value.h

\* the value is an integral number within the range of the integer type
IntegralInRange(ty, value) ==
    /\ Halves(value) % 2 = 0
    /\ Halves(value) >= 2 * TypeMin(ty) /\ Halves(value) <= 2 * TypeMax(ty)

\* C14: for an integer target, from_lua and from_stack return a value only
\* for an integral number within the target's range, that number, and fail
\* with the reason "out of range" for every number that has a fractional
\* component or lies outside the range.
IntRejects ==
    (pc \in {"from_lua", "from_stack"} /\ arg.t \in IntTypes
        /\ arg.values[1].k \in {"integer", "number"})
    => IF IntegralInRange(arg.t, arg.values[1])
       THEN ret = Ok(HInt(arg.t, Halves(arg.values[1]) \div 2))
       ELSE IsErr(ret) /\ ret.e.message = "out of range"

\* the integer is a VM integer, or a float holds it exactly
Lossless(x) == (x >= LuaIntMin /\ x <= LuaIntMax) \/ IntToFloat(x) = x

\* C15: into_lua of an integer that neither the VM's integer nor its float
\* represents without loss returns a ToLuaConversionError naming the source
\* type, the target "number" and the reason "out of range".
IntoLuaOutOfRange ==
    (pc = "into_lua" /\ arg.k \in IntTypes /\ ~Lossless(arg.i))
    => ret = Err(ToLuaConversionError(arg.k, "number", "out of range"))

\* C16: for an integer target and a value that is neither Integer nor
\* Number, from_lua takes the VM's integer coercion when it yields a number
\* (so "42" converts to 42, without passing through a float), the float
\* coercion only otherwise, and fails with "expected number or string
\* coercible to number" when both yield nothing.
CoercionOrder ==
    (pc = "from_lua" /\ arg.t \in IntTypes /\ arg.values[1].k \notin {"integer", "number"})
    => IF IsOk(coerce_integer(arg.values[1]))
       THEN ret = IF /\ coerce_integer(arg.values[1]).v >= TypeMin(arg.t)
                     /\ coerce_integer(arg.values[1]).v <= TypeMax(arg.t)
                  THEN Ok(HInt(arg.t, coerce_integer(arg.values[1]).v))
                  ELSE Err(FromLuaConversionError(type_name(arg.values[1]), arg.t, "out of range"))
       ELSE IF IsOk(coerce_number(arg.values[1]))
       THEN IsErr(ret) => ret.e.message = "out of range"
       ELSE ret = Err(FromLuaConversionError(type_name(arg.values[1]), arg.t,
                          "expected number or string coercible to number"))

\* the string "abc" fails with the coercion-failure reason
CoercionOrderWitness ==
    /\ pc = "from_lua" /\ arg.t = "i8"
    /\ arg.values = <<String("abc", 3)>>
    /\ ret = Err(FromLuaConversionError("string", "i8",
                    "expected number or string coercible to number"))

\* the target type that reads a host value back
TypeOf(x) ==
    CASE x.k = "Option" /\ x.t = "bool" -> "Option<bool>"
      [] x.k = "Option" /\ x.t = "i8" -> "Option<i8>"
      [] x.k = "Option" /\ x.t = "String" -> "Option<String>"
      [] OTHER -> x.k

\* an integer within the VM's numeric range, a bool, or an Option of them
RoundTrips(x) ==
    \/ x.k = "bool"
    \/ x.k \in IntTypes /\ Lossless(x.i)
    \/ x.k = "Option" /\ x.t \in {"bool", "i8"}

\* C17: for an integer within the VM's numeric range, a bool, and an Option
\* of them (None being Nil), into_lua succeeds and from_lua of the value it
\* produced succeeds and gives the host value back.
RoundTrip ==
    (pc = "into_lua" /\ RoundTrips(arg))
    => /\ IsOk(ret)
       /\ from_lua(TypeOf(arg), ret.v, lua) = Ok(arg)
       /\ (arg.k = "Option" => (ret.v = Nil <=> ~IsSome(arg)))

\* an integer beyond the VM's integer, carried by a float, comes back
RoundTripWitness ==
    /\ pc = "into_lua" /\ arg = HInt("i128", LuaIntMax + 1)
    /\ ret = Ok(Number(2 * (LuaIntMax + 1)))
    /\ from_lua("i128", ret.v, lua) = Ok(arg)

\* the number of values a successful Result carries
OkLength(m) == IF m.k = "Result" THEN 1 ELSE 0

\* C18: whenever a Result<T, E> or a Result<(), E> yields a list, an Err
\* yields exactly two values of which the first is Nil, and an Ok yields at
\* most one (exactly one for Ok(v), none and a push count of 0 for Ok(())),
\* from into_lua_multi and on the stack from push_into_stack_multi alike.
ResultDistinct ==
    (pc \in {"into_lua_multi", "push_into_stack_multi"}
        /\ arg.k \in {"Result", "Result<()>"} /\ IsOk(ret))
    => /\ (pc = "into_lua_multi" /\ arg.ok) => Len(ret.v) = OkLength(arg)
       /\ (pc = "into_lua_multi" /\ ~arg.ok) => Len(ret.v) = 2 /\ ret.v[1] = Nil
       /\ (pc = "push_into_stack_multi" /\ arg.ok) =>
             ret.v = OkLength(arg) /\ Len(stack) = Len(pre) + OkLength(arg)
       /\ (pc = "push_into_stack_multi" /\ ~arg.ok) =>
             /\ ret.v = 2 /\ Len(stack) = Len(pre) + 2
             /\ stack[Len(pre) + 1] = Nil

\* an Ok whose value converts to Nil yields the one-element list [Nil]
ResultDistinctWitness ==
    /\ pc = "into_lua_multi" /\ arg = MResult(TRUE, HNone("i8"))
    /\ ret = Ok(<<Nil>>)

\* C19: push_into_stack of a registry key on a VM that does not own it
\* answers MismatchedRegistryKey and leaves the stack as it was; on the
\* owning VM it succeeds and pushes exactly one value, Nil for the nil
\* reference and the registry entry of the key's id otherwise.
KeyPush ==
    (pc = "push_into_stack" /\ arg.k = "RegistryKey")
    => IF arg.owner # lua.id
       THEN ret = Err(MismatchedRegistryKey) /\ stack = pre
       ELSE /\ ret = Ok("()")
            /\ stack = Append(pre, IF arg.id = LUA_REFNIL THEN Nil ELSE Registry(arg.id))

\* the key of another VM has been refused
KeyPushWitness ==
    /\ pc = "push_into_stack" /\ arg = HRegistryKey(2, 1)
    /\ ret = Err(MismatchedRegistryKey) /\ stack = pre

FixedValues(fixed, n, ctx) == [j \in 1..n |-> into_lua(fixed[j], ctx).v]

=============================================================================
